---- MODULE Spec2Model ----
(***************************************************************************)
(* The scanner (lexer/lexer.go), the token table (token/token.go), the     *)
(* Pratt parser (parser) and the AST renderer (ast) of goInterpreter.      *)
(*                                                                         *)
(* Source text is a sequence of bytes (integers 0..255), as in Go, so that *)
(* the byte 0, which the scanner uses as its end-of-input sentinel, is an  *)
(* ordinary input value.  Token literals are byte sequences; token types   *)
(* are the strings of token/token.go.                                      *)
(***************************************************************************)
EXTENDS Integers, Sequences, FiniteSets, TLC

VARIABLES
    lx,        \* a stand-alone lexer.Lexer driven directly through NextToken
    out,       \* the tokens lx has returned so far, in call order
    p,         \* the parser.Parser: l (its Lexer), curToken, peekToken, errors
    program,   \* program.Statements of the ParseProgram call in progress
    stmt,      \* the statement parseStatement is building / has returned
    pc,        \* where the ParseProgram call stands
    heap,      \* the Lexer objects allocated by lexer.New, by address
    scanners,  \* two *Lexer values: the addresses lexer.New returned
    outs       \* the tokens each of the two scanners has returned so far

vars == <<lx, out, p, program, stmt, pc, heap, scanners, outs>>

(***************************************************************************)
(* Bytes.  Each run lists consecutive ASCII characters; the number is the  *)
(* code of the character before the first of the run.                      *)
(***************************************************************************)
AsciiRuns ==
    << <<31, <<" ", "!">> >>,
       <<39, <<"(", ")", "*", "+", ",", "-", ".", "/",
               "0", "1", "2", "3", "4", "5", "6", "7", "8", "9", ":", ";", "<", "=", ">", "?",
               "@", "A", "B", "C", "D", "E", "F", "G", "H", "I", "J", "K", "L", "M", "N", "O",
               "P", "Q", "R", "S", "T", "U", "V", "W", "X", "Y", "Z">> >>,
       <<94, <<"_">> >>,
       <<96, <<"a", "b", "c", "d", "e", "f", "g", "h", "i", "j", "k", "l", "m", "n", "o",
               "p", "q", "r", "s", "t", "u", "v", "w", "x", "y", "z", "{", "|", "}", "~">> >> >>

ByteOf ==
    [c \in UNION {{AsciiRuns[r][2][i] : i \in 1..Len(AsciiRuns[r][2])} : r \in 1..Len(AsciiRuns)} |->
        LET r == CHOOSE r \in 1..Len(AsciiRuns) :
                    \E i \in 1..Len(AsciiRuns[r][2]) : AsciiRuns[r][2][i] = c
        IN  AsciiRuns[r][1] + (CHOOSE i \in 1..Len(AsciiRuns[r][2]) : AsciiRuns[r][2][i] = c)]

\* The byte of a one-character Go rune literal such as the equals sign.
B(c) == ByteOf[c]

\* The bytes of a Go string literal given as its characters.
Str(cs) == [i \in 1..Len(cs) |-> ByteOf[cs[i]]]

TAB == 9
LF == 10
CR == 13

(***************************************************************************)
(* token/token.go                                                          *)
(***************************************************************************)
ILLEGAL == "ILLEGAL"
EOF == "EOF"
IDENT == "IDENT"
INT == "INT"
ASSIGN == "="
PLUS == "+"
MINUS == "-"
BANG == "!"
ASTERISK == "*"
SLASH == "/"
LT == "<"
GT == ">"
EQ == "=="
NOT_EQ == "!="
COMMA == ","
SEMICOLON == ";"
LPAREN == "("
RPAREN == ")"
LBRACE == "{"
RBRACE == "}"
FUNCTION == "FUNCTION"
LET_ == "LET"
TRUE_ == "TRUE"
FALSE_ == "FALSE"
IF_ == "IF"
ELSE_ == "ELSE"
RETURN == "RETURN"

\* var keywords: the keys and their token types.
keywords == [k \in {Str(<<"f", "n">>), Str(<<"l", "e", "t">>)} |->
                IF k = Str(<<"f", "n">>) THEN FUNCTION ELSE LET_]

LookupTokenType(literal) ==
    IF literal \in DOMAIN keywords THEN keywords[literal] ELSE IDENT

\* The zero value of token.Token.
ZeroToken == [Type |-> "", Literal |-> <<>>]

(***************************************************************************)
(* lexer/lexer.go                                                          *)
(***************************************************************************)
readChar(l) ==
    [l EXCEPT !.ch = IF l.readPosition >= Len(l.input)
                     THEN 0
                     ELSE l.input[l.readPosition + 1],
              !.position = l.readPosition,
              !.readPosition = l.readPosition + 1]

LexerNew(input) ==
    readChar([input |-> input, position |-> 0, readPosition |-> 0, ch |-> 0])

\* A variant of peekChar that returns the current byte.
peekChar_Current(l) == l.ch

peekChar(l) ==
    IF l.readPosition >= Len(l.input) THEN 0 ELSE l.input[l.readPosition + 1]

isLetter(ch) ==
    \/ B("a") <= ch /\ ch <= B("z")
    \/ B("A") <= ch /\ ch <= B("Z")
    \/ ch = B("_")

isDisit(ch) == B("0") <= ch /\ ch <= B("9")

RECURSIVE skipWhitespace(_)
skipWhitespace(l) ==
    IF l.ch = B(" ") \/ l.ch = TAB \/ l.ch = LF \/ l.ch = CR
    THEN skipWhitespace(readChar(l))
    ELSE l

\* string(ch) of a byte is the UTF-8 text of the code point ch: the byte
\* itself below 0x80, two bytes from 0x80 on.
RuneText(ch) == IF ch < 128 THEN <<ch>> ELSE <<192 + (ch \div 64), 128 + (ch % 64)>>

newToken(tokenType, ch) == [Type |-> tokenType, Literal |-> RuneText(ch)]

\* The loop of readIdentifier: the lexer after the run of letters.
RECURSIVE readLetters(_)
readLetters(l) == IF isLetter(l.ch) THEN readLetters(readChar(l)) ELSE l

\* The loop of readNumber: the lexer after the run of digits.
RECURSIVE readDigits(_)
readDigits(l) == IF isDisit(l.ch) THEN readDigits(readChar(l)) ELSE l

\* return l.input[position:l.position], l2 being the lexer after the loop.
Slice(l, l2) == [l |-> l2, lit |-> SubSeq(l.input, l.position + 1, l2.position)]

readIdentifier(l) == Slice(l, readLetters(l))

\* A variant of readNumber that reads one digit.
readNumber_OneDigit(l) == Slice(l, readChar(l))

readNumber(l) == Slice(l, readDigits(l))

\* A variant of the two-character case that consumes the first byte only.
TwoChar_OneConsumed(l, tokenType) ==
    [tok |-> [Type |-> tokenType, Literal |-> <<l.ch>> \o <<peekChar(l)>>],
     l |-> readChar(l)]

\* The two-character case of '=' and '!': both bytes are consumed.
TwoChar(l, tokenType) ==
    LET l2 == readChar(l)
    IN  [tok |-> [Type |-> tokenType, Literal |-> <<l.ch>> \o <<l2.ch>>],
         l |-> readChar(l2)]

\* A variant of the one-byte case without the readChar that ends NextToken.
OneChar_Staying(l, tokenType) == [tok |-> newToken(tokenType, l.ch), l |-> l]

\* A one-byte token followed by the readChar that ends NextToken.
OneChar(l, tokenType) ==
    [tok |-> newToken(tokenType, l.ch), l |-> readChar(l)]

\* The early returns of the default case: tok.Literal is the text read and
\* no readChar follows.
IdentToken(r) == [tok |-> [Type |-> LookupTokenType(r.lit), Literal |-> r.lit], l |-> r.l]

IntToken(r) == [tok |-> [Type |-> INT, Literal |-> r.lit], l |-> r.l]

\* The switch of NextToken, on the lexer after skipWhitespace.
SwitchCh(l) ==
    CASE l.ch = B("=") ->
            IF peekChar(l) = B("=") THEN TwoChar(l, EQ) ELSE OneChar(l, ASSIGN)
      [] l.ch = B("+") -> OneChar(l, PLUS)
      [] l.ch = B("-") -> OneChar(l, MINUS)
      [] l.ch = B("!") ->
            IF peekChar(l) = B("=") THEN TwoChar(l, NOT_EQ) ELSE OneChar(l, BANG)
      [] l.ch = B("/") -> OneChar(l, SLASH)
      [] l.ch = B("*") -> OneChar(l, ASTERISK)
      [] l.ch = B("<") -> OneChar(l, LT)
      [] l.ch = B(">") -> OneChar(l, GT)
      [] l.ch = B(";") -> OneChar(l, SEMICOLON)
      [] l.ch = B(",") -> OneChar(l, COMMA)
      [] l.ch = B("{") -> OneChar(l, LBRACE)
      [] l.ch = B("}") -> OneChar(l, RBRACE)
      [] l.ch = B("(") -> OneChar(l, LPAREN)
      [] l.ch = B(")") -> OneChar(l, RPAREN)
      [] l.ch = 0 -> [tok |-> [Type |-> EOF, Literal |-> <<>>], l |-> readChar(l)]
      [] OTHER ->
            IF isLetter(l.ch) THEN IdentToken(readIdentifier(l))
            ELSE IF isDisit(l.ch) THEN IntToken(readNumber(l))
            ELSE OneChar(l, ILLEGAL)

\* NextToken: the token returned (tok) and the lexer afterwards (l).
NextToken(l) == SwitchCh(skipWhitespace(l))

(***************************************************************************)
(* ast: nodes are records tagged with their Go dynamic type.  NilExpr and  *)
(* NilStmt are nil interface values; NilLetStatement is a nil              *)
(* *ast.LetStatement held in a Statement interface, which Go does not      *)
(* consider equal to nil.                                                  *)
(***************************************************************************)
NilExpr == [type |-> "nil"]
NilStmt == [type |-> "nil"]
NilLetStatement == [type |-> "*ast.LetStatement", isNil |-> TRUE]

Identifier(tok, value) == [type |-> "*ast.Identifier", Token |-> tok, Value |-> value]

(***************************************************************************)
(* parser: a Parser is [l, curToken, peekToken, errors].  An operation     *)
(* that returns a value yields a record of the parser afterwards (p) and   *)
(* the value (ok, exp or stmt).                                            *)
(***************************************************************************)
LOWEST == 1
EQUALS == 2
LESSGREATER == 3
SUM == 4
PRODUCT == 5
PREFIX == 6
CALL == 7

\* A variant of the table with SUM and PRODUCT exchanged.
precedences_SumOverProduct ==
    [t \in {EQ, NOT_EQ, LT, GT, PLUS, MINUS, SLASH, ASTERISK, LPAREN} |->
        CASE t \in {EQ, NOT_EQ} -> EQUALS
          [] t \in {LT, GT} -> LESSGREATER
          [] t \in {PLUS, MINUS} -> PRODUCT
          [] t \in {SLASH, ASTERISK} -> SUM
          [] t = LPAREN -> CALL]

precedences ==
    [t \in {EQ, NOT_EQ, LT, GT, PLUS, MINUS, SLASH, ASTERISK, LPAREN} |->
        CASE t \in {EQ, NOT_EQ} -> EQUALS
          [] t \in {LT, GT} -> LESSGREATER
          [] t \in {PLUS, MINUS} -> SUM
          [] t \in {SLASH, ASTERISK} -> PRODUCT
          [] t = LPAREN -> CALL]

\* The maps New fills with registerPrefix / registerInfix: token type -> handler.
prefixParseFns ==
    [t \in {IDENT, INT, BANG, MINUS, TRUE_, FALSE_, LPAREN} |->
        CASE t = IDENT -> "parseIdentifier"
          [] t = INT -> "parserIntegerLiteral"
          [] t \in {BANG, MINUS} -> "parsePrefixExpression"
          [] t \in {TRUE_, FALSE_} -> "parseBoolean"
          [] t = LPAREN -> "parseGroupedExpression"]

infixParseFns ==
    [t \in {PLUS, MINUS, SLASH, ASTERISK, EQ, NOT_EQ, LT, GT} |-> "parseInfixExpression"]

\* p.curToken = p.peekToken; p.peekToken = (r.tok, with the lexer left as r.l)
ShiftTokens(P, r) == [P EXCEPT !.curToken = P.peekToken, !.peekToken = r.tok, !.l = r.l]

nextToken(P) == ShiftTokens(P, NextToken(P.l))

\* A variant of New that reads one token only.
ParserNew_OnePull(l) ==
    nextToken([l |-> l, curToken |-> ZeroToken, peekToken |-> ZeroToken, errors |-> <<>>])

ParserNew(l) ==
    nextToken(nextToken([l |-> l, curToken |-> ZeroToken, peekToken |-> ZeroToken,
                         errors |-> <<>>]))

curTokenIs(P, t) == P.curToken.Type = t

peekTokenIs(P, t) == P.peekToken.Type = t

\* An error message: the format string of the Sprintf call and its arguments
\* (token types in types, a quoted literal in lit).
peekError(P, t) ==
    [P EXCEPT !.errors = Append(@,
        [fmt |-> "expected next token to be %s, got %s instead",
         types |-> <<t, P.peekToken.Type>>, lit |-> <<>>])]

\* A variant of noPrefixParseFnError that records nothing.
noPrefixParseFnError_Silent(P, t) == P

noPrefixParseFnError(P, t) ==
    [P EXCEPT !.errors = Append(@,
        [fmt |-> "no prefix parse function for %s found", types |-> <<t>>, lit |-> <<>>])]

\* A variant that advances the token window also when the peek token is
\* not the expected one.
expectPeek_AlwaysAdvancing(P, t) ==
    IF peekTokenIs(P, t)
    THEN [p |-> nextToken(P), ok |-> TRUE]
    ELSE [p |-> nextToken(peekError(P, t)), ok |-> FALSE]

expectPeek(P, t) ==
    IF peekTokenIs(P, t)
    THEN [p |-> nextToken(P), ok |-> TRUE]
    ELSE [p |-> peekError(P, t), ok |-> FALSE]

peekPrecedence(P) ==
    IF P.peekToken.Type \in DOMAIN precedences
    THEN precedences[P.peekToken.Type] ELSE LOWEST

curPrecedence(P) ==
    IF P.curToken.Type \in DOMAIN precedences
    THEN precedences[P.curToken.Type] ELSE LOWEST

\* A variant that leaves the Value of the node empty.
parseIdentifier_NoValue(P) ==
    [p |-> P, exp |-> Identifier(P.curToken, <<>>)]

parseIdentifier(P) ==
    [p |-> P, exp |-> Identifier(P.curToken, P.curToken.Literal)]

parseBoolean(P) ==
    [p |-> P, exp |-> [type |-> "*ast.Boolean", Token |-> P.curToken,
                       Value |-> curTokenIs(P, TRUE_)]]

(***************************************************************************)
(* strconv.ParseInt(s, 0, 64) on a non-empty run of digits.  With base 0   *)
(* a leading "0" selects base 8 and is dropped; otherwise the base is 10.  *)
(* A digit not below the base is a syntax error, a value above 2^63 - 1 a  *)
(* range error.  The range test compares digit strings.                    *)
(***************************************************************************)
MaxInt64Digits ==
    Str(<<"9", "2", "2", "3", "3", "7", "2", "0", "3", "6", "8", "5", "4", "7", "7", "5",
          "8", "0", "7">>)

MaxInt64OctalLen == 21

RECURSIVE StripZeros(_)
StripZeros(ds) ==
    IF ds # <<>> /\ Head(ds) = B("0") THEN StripZeros(Tail(ds)) ELSE ds

\* a <= b for digit strings of equal length.
RECURSIVE LeqDigits(_, _)
LeqDigits(a, b) ==
    IF a = <<>> THEN TRUE
    ELSE IF Head(a) # Head(b) THEN Head(a) < Head(b)
    ELSE LeqDigits(Tail(a), Tail(b))

RECURSIVE DigitsValue(_, _, _)
DigitsValue(ds, base, acc) ==
    IF ds = <<>> THEN acc
    ELSE DigitsValue(Tail(ds), base, acc * base + (Head(ds) - B("0")))

ParseInt(s) ==
    LET base == IF Head(s) = B("0") THEN 8 ELSE 10
        ds == IF Head(s) = B("0") THEN Tail(s) ELSE s
        sig == StripZeros(ds)
        syntaxOk == \A i \in 1..Len(ds) : ds[i] - B("0") < base
        inRange == IF base = 8
                   THEN Len(sig) <= MaxInt64OctalLen
                   ELSE \/ Len(sig) < Len(MaxInt64Digits)
                        \/ Len(sig) = Len(MaxInt64Digits) /\ LeqDigits(sig, MaxInt64Digits)
        ok == syntaxOk /\ inRange
    IN  [ok |-> ok, value |-> IF ok THEN DigitsValue(ds, base, 0) ELSE 0]

\* A variant that steps over the token it could not convert.
IntegerLiteralOf_Advancing(P, r) ==
    IF ~r.ok
    THEN [p |-> nextToken([P EXCEPT !.errors = Append(@,
                    [fmt |-> "could not parse %q as integer", types |-> <<>>,
                     lit |-> P.curToken.Literal])]),
          exp |-> NilExpr]
    ELSE [p |-> P,
          exp |-> [type |-> "*ast.IntegerLiteral", Token |-> P.curToken,
                   Value |-> r.value]]

\* A variant that records no error when the conversion fails.
IntegerLiteralOf_Silent(P, r) ==
    IF ~r.ok
    THEN [p |-> P, exp |-> NilExpr]
    ELSE [p |-> P,
          exp |-> [type |-> "*ast.IntegerLiteral", Token |-> P.curToken,
                   Value |-> r.value]]

\* parserIntegerLiteral after the ParseInt call, r being (value, err == nil).
IntegerLiteralOf(P, r) ==
    IF ~r.ok
    THEN [p |-> [P EXCEPT !.errors = Append(@,
                    [fmt |-> "could not parse %q as integer", types |-> <<>>,
                     lit |-> P.curToken.Literal])],
          exp |-> NilExpr]
    ELSE [p |-> P,
          exp |-> [type |-> "*ast.IntegerLiteral", Token |-> P.curToken,
                   Value |-> r.value]]

parserIntegerLiteral(P) == IntegerLiteralOf(P, ParseInt(P.curToken.Literal))

RECURSIVE parseExpression(_, _)
RECURSIVE parseInfixLoop(_, _)
RECURSIVE parsePrefixExpression(_)
RECURSIVE parseInfixExpression(_, _)
RECURSIVE parseGroupedExpression(_)

\* prefix(): the call through the prefixParseFns entry of the current token.
CallPrefix(P) ==
    CASE prefixParseFns[P.curToken.Type] = "parseIdentifier" -> parseIdentifier(P)
      [] prefixParseFns[P.curToken.Type] = "parserIntegerLiteral" -> parserIntegerLiteral(P)
      [] prefixParseFns[P.curToken.Type] = "parsePrefixExpression" -> parsePrefixExpression(P)
      [] prefixParseFns[P.curToken.Type] = "parseBoolean" -> parseBoolean(P)
      [] prefixParseFns[P.curToken.Type] = "parseGroupedExpression" ->
            parseGroupedExpression(P)

parseExpression(P, precedence) ==
    IF P.curToken.Type \notin DOMAIN prefixParseFns
    THEN [p |-> noPrefixParseFnError(P, P.curToken.Type), exp |-> NilExpr]
    ELSE parseInfixLoop(CallPrefix(P), precedence)

\* A variant of the loop that steps onto a token it has no handler for.
parseInfixLoop_SteppingOn(r, precedence) ==
    IF ~peekTokenIs(r.p, SEMICOLON) /\ precedence < peekPrecedence(r.p)
    THEN IF r.p.peekToken.Type \notin DOMAIN infixParseFns
         THEN [p |-> nextToken(r.p), exp |-> r.exp]
         ELSE parseInfixLoop(parseInfixExpression(nextToken(r.p), r.exp), precedence)
    ELSE r

\* The for loop of parseExpression; r is the parser (r.p) and leftExp (r.exp).
parseInfixLoop(r, precedence) ==
    IF ~peekTokenIs(r.p, SEMICOLON) /\ precedence < peekPrecedence(r.p)
    THEN IF r.p.peekToken.Type \notin DOMAIN infixParseFns
         THEN r
         ELSE parseInfixLoop(parseInfixExpression(nextToken(r.p), r.exp), precedence)
    ELSE r

\* expression.Right = (r.exp); return expression
PrefixExpressionOf(P, r) ==
    [p |-> r.p,
     exp |-> [type |-> "*ast.PrefixExpression", Token |-> P.curToken,
              Operator |-> P.curToken.Literal, Right |-> r.exp]]

\* A variant that parses the operand at LOWEST level.
parsePrefixExpression_AtLowest(P) ==
    PrefixExpressionOf(P, parseExpression(nextToken(P), LOWEST))

parsePrefixExpression(P) == PrefixExpressionOf(P, parseExpression(nextToken(P), PREFIX))

InfixExpressionOf(P, left, r) ==
    [p |-> r.p,
     exp |-> [type |-> "*ast.InfixExpression", Token |-> P.curToken, Left |-> left,
              Operator |-> P.curToken.Literal, Right |-> r.exp]]

\* A variant that parses the right operand one level lower, which makes
\* operators of equal precedence associate to the right.
parseInfixExpression_RightAssociative(P, left) ==
    InfixExpressionOf(P, left, parseExpression(nextToken(P), curPrecedence(P) - 1))

parseInfixExpression(P, left) ==
    InfixExpressionOf(P, left, parseExpression(nextToken(P), curPrecedence(P)))

\* A variant that returns the expression also when no ) follows it.
GroupedExpressionOf_Lenient(exp, e) == [p |-> e.p, exp |-> exp]

\* if !p.expectPeek(token.RPAREN) { return nil }; return exp
GroupedExpressionOf(exp, e) ==
    IF ~e.ok THEN [p |-> e.p, exp |-> NilExpr] ELSE [p |-> e.p, exp |-> exp]

GroupedExpressionClose(r) == GroupedExpressionOf(r.exp, expectPeek(r.p, RPAREN))

\* A variant that parses the inside of the parentheses at PREFIX level.
parseGroupedExpression_AtPrefix(P) ==
    GroupedExpressionClose(parseExpression(nextToken(P), PREFIX))

parseGroupedExpression(P) == GroupedExpressionClose(parseExpression(nextToken(P), LOWEST))

\* A variant that leaves a semicolon after the expression where it is.
ExpressionStatementOf_SemicolonLeft(P, r) ==
    [p |-> r.p,
     stmt |-> [type |-> "*ast.ExpressionStatement", isNil |-> FALSE,
               Token |-> P.curToken, Expression |-> r.exp],
     skip |-> FALSE]

\* parseExpressionStatement after parseExpression(LOWEST) has returned r.
ExpressionStatementOf(P, r) ==
    [p |-> IF peekTokenIs(r.p, SEMICOLON) THEN nextToken(r.p) ELSE r.p,
     stmt |-> [type |-> "*ast.ExpressionStatement", isNil |-> FALSE,
               Token |-> P.curToken, Expression |-> r.exp],
     skip |-> FALSE]

parseExpressionStatement(P) == ExpressionStatementOf(P, parseExpression(P, LOWEST))

\* parseLetStatement after the second expectPeek (e2); P is the parser on
\* entry, name the Identifier built from the token after let.
\* A variant of parseLetStatement without the loop that skips to the semicolon.
LetStatementAssign_NoSkip(P, name, e2) ==
    IF ~e2.ok THEN [p |-> e2.p, stmt |-> NilLetStatement, skip |-> FALSE]
    ELSE [p |-> e2.p,
          stmt |-> [type |-> "*ast.LetStatement", isNil |-> FALSE,
                    Token |-> P.curToken, Name |-> name, Value |-> NilExpr],
          skip |-> FALSE]

LetStatementAssign(P, name, e2) ==
    IF ~e2.ok THEN [p |-> e2.p, stmt |-> NilLetStatement, skip |-> FALSE]
    ELSE [p |-> e2.p,
          stmt |-> [type |-> "*ast.LetStatement", isNil |-> FALSE,
                    Token |-> P.curToken, Name |-> name, Value |-> NilExpr],
          skip |-> TRUE]

\* A variant that names the statement after the let token.
LetStatementName_FromLetToken(P, e1) ==
    IF ~e1.ok THEN [p |-> e1.p, stmt |-> NilLetStatement, skip |-> FALSE]
    ELSE LetStatementAssign(P, Identifier(P.curToken, P.curToken.Literal),
                            expectPeek(e1.p, ASSIGN))

\* parseLetStatement after the first expectPeek (e1).
LetStatementName(P, e1) ==
    IF ~e1.ok THEN [p |-> e1.p, stmt |-> NilLetStatement, skip |-> FALSE]
    ELSE LetStatementAssign(P, Identifier(e1.p.curToken, e1.p.curToken.Literal),
                            expectPeek(e1.p, ASSIGN))

\* parseLetStatement up to its skip loop: skip tells whether the loop is entered.
parseLetStatementHead(P) == LetStatementName(P, expectPeek(P, IDENT))

\* parseReturnStatement up to its skip loop.
parseReturnStatementHead(P) ==
    [p |-> nextToken(P),
     stmt |-> [type |-> "*ast.ReturnStatement", isNil |-> FALSE,
               Token |-> P.curToken, ReturnValue |-> NilExpr],
     skip |-> TRUE]

parseStatement(P) ==
    CASE P.curToken.Type = LET_ -> parseLetStatementHead(P)
      [] P.curToken.Type = RETURN -> parseReturnStatementHead(P)
      [] OTHER -> parseExpressionStatement(P)

(***************************************************************************)
(* ast String(): the text, or a panic when a method is called through a    *)
(* nil interface or dereferences a nil pointer.                            *)
(***************************************************************************)
Text(bytes) == [panic |-> FALSE, out |-> bytes]

Panic == [panic |-> TRUE, out |-> <<>>]

Cat(a, b) == IF a.panic \/ b.panic THEN Panic ELSE Text(a.out \o b.out)

\* A variant of the rendering that leaves out the parentheses around infix
\* expressions.
RECURSIVE ExprString_NoParens(_)
ExprString_NoParens(e) ==
    CASE e.type = "nil" -> Panic
      [] e.type = "*ast.Identifier" -> Text(e.Value)
      [] e.type = "*ast.IntegerLiteral" -> Text(e.Token.Literal)
      [] e.type = "*ast.Boolean" -> Text(e.Token.Literal)
      [] e.type = "*ast.PrefixExpression" ->
            Cat(Cat(Cat(Text(Str(<<"(">>)), Text(e.Operator)), ExprString_NoParens(e.Right)),
                Text(Str(<<")">>)))
      [] e.type = "*ast.InfixExpression" ->
            Cat(Cat(ExprString_NoParens(e.Left),
                    Text(Str(<<" ">>) \o e.Operator \o Str(<<" ">>))),
                ExprString_NoParens(e.Right))

RECURSIVE ExprString(_)
ExprString(e) ==
    CASE e.type = "nil" -> Panic
      [] e.type = "*ast.Identifier" -> Text(e.Value)
      [] e.type = "*ast.IntegerLiteral" -> Text(e.Token.Literal)
      [] e.type = "*ast.Boolean" -> Text(e.Token.Literal)
      [] e.type = "*ast.PrefixExpression" ->
            Cat(Cat(Cat(Text(Str(<<"(">>)), Text(e.Operator)), ExprString(e.Right)),
                Text(Str(<<")">>)))
      [] e.type = "*ast.InfixExpression" ->
            Cat(Cat(Cat(Cat(Text(Str(<<"(">>)), ExprString(e.Left)),
                        Text(Str(<<" ">>) \o e.Operator \o Str(<<" ">>))),
                    ExprString(e.Right)),
                Text(Str(<<")">>)))

StmtString(s) ==
    CASE s.type = "nil" -> Panic
      [] s.isNil -> Panic
      [] s.type = "*ast.LetStatement" ->
            Cat(Cat(Cat(Cat(Text(s.Token.Literal \o Str(<<" ">>)), ExprString(s.Name)),
                        Text(Str(<<" ", "=", " ">>))),
                    IF s.Value.type # "nil" THEN ExprString(s.Value) ELSE Text(<<>>)),
                Text(Str(<<";">>)))
      [] s.type = "*ast.ReturnStatement" ->
            Cat(Cat(Text(s.Token.Literal \o Str(<<" ">>)),
                    IF s.ReturnValue.type # "nil" THEN ExprString(s.ReturnValue) ELSE Text(<<>>)),
                Text(Str(<<";">>)))
      [] s.type = "*ast.ExpressionStatement" ->
            IF s.Expression.type # "nil" THEN ExprString(s.Expression) ELSE Text(<<>>)

RECURSIVE ProgramString(_)
ProgramString(statements) ==
    IF statements = <<>> THEN Text(<<>>)
    ELSE Cat(StmtString(Head(statements)), ProgramString(Tail(statements)))

(***************************************************************************)
(* ParseProgram run to its end in one evaluation, for texts parsed inside  *)
(* a formula.  The skip loop of a let/return statement cannot exit once    *)
(* the current and the peek token are EOF and the lexer is past the end of *)
(* its input: the run then diverges.                                       *)
(***************************************************************************)
LexerExhausted(l) == l.ch = 0 /\ l.readPosition > Len(l.input)

SkipLoopDiverges(P) ==
    /\ P.curToken.Type = EOF
    /\ P.peekToken.Type = EOF
    /\ LexerExhausted(P.l)

RECURSIVE SkipLoop(_)
SkipLoop(P) ==
    IF curTokenIs(P, SEMICOLON) THEN [p |-> P, diverges |-> FALSE]
    ELSE IF SkipLoopDiverges(P) THEN [p |-> P, diverges |-> TRUE]
    ELSE SkipLoop(nextToken(P))

RECURSIVE ParseProgramLoop(_, _)
ParseProgramLoop(P, statements) ==
    IF P.curToken.Type = EOF
    THEN [returns |-> TRUE, Statements |-> statements, errors |-> P.errors]
    ELSE LET r == parseStatement(P)
             k == IF r.skip THEN SkipLoop(r.p) ELSE [p |-> r.p, diverges |-> FALSE]
         IN  IF k.diverges
             THEN [returns |-> FALSE, Statements |-> statements, errors |-> k.p.errors]
             ELSE ParseProgramLoop(nextToken(k.p),
                                   IF r.stmt.type # "nil"
                                   THEN Append(statements, r.stmt) ELSE statements)

\* lexer.New, parser.New and ParseProgram on a source text.
Parse(input) == ParseProgramLoop(ParserNew(LexerNew(input)), <<>>)

(***************************************************************************)
(* Source texts.  A text is a list of lexemes joined by single spaces.     *)
(***************************************************************************)
MaxSoup == 4
MaxStmts == 3
MaxOverrun == 8

RECURSIVE Join(_)
Join(ws) ==
    IF ws = <<>> THEN <<>>
    ELSE IF Len(ws) = 1 THEN ws[1]
    ELSE ws[1] \o Str(<<" ">>) \o Join(Tail(ws))

RECURSIVE Flatten(_)
Flatten(ss) == IF ss = <<>> THEN <<>> ELSE Head(ss) \o Flatten(Tail(ss))

W(cs) == Str(cs)

SeqsUpTo(S, n) == UNION {[1..k -> S] : k \in 0..n}

SoupLexemes ==
    {W(<<"l", "e", "t">>), W(<<"x">>), W(<<"=">>), W(<<"5">>), W(<<";">>),
     W(<<"(">>), W(<<")">>), W(<<"-">>), W(<<"+">>)}

SoupInputs == {Join(ws) : ws \in SeqsUpTo(SoupLexemes, MaxSoup)}

IdentLexemes == {W(<<"x">>), W(<<"f", "o", "o", "b", "a", "r">>)}

IntLexemes == {W(<<"5">>), W(<<"1", "0">>)}

LetText(ident, int) ==
    Join(<<W(<<"l", "e", "t">>), ident, W(<<"=">>), int>>) \o W(<<";">>)

ReturnText(int) == Join(<<W(<<"r", "e", "t", "u", "r", "n">>), int>>) \o W(<<";">>)

\* n >= 1 statements let IDENT = INT;
LetPrograms ==
    {Join([i \in 1..Len(ds) |-> LetText(ds[i][1], ds[i][2])]) :
        ds \in SeqsUpTo(IdentLexemes \X IntLexemes, MaxStmts) \ {<<>>}}

\* n >= 1 statements return INT;
ReturnPrograms ==
    {Join([i \in 1..Len(ds) |-> ReturnText(ds[i])]) :
        ds \in SeqsUpTo(IntLexemes, MaxStmts) \ {<<>>}}

InfixOps ==
    {W(<<"+">>), W(<<"-">>), W(<<"*">>), W(<<"/">>), W(<<"=", "=">>), W(<<"!", "=">>),
     W(<<"<">>), W(<<">">>)}

OpA == W(<<"a">>)
OpB == W(<<"b">>)
OpC == W(<<"c">>)

\* a op1 b op2 c
InfixText(op1, op2) == Join(<<OpA, op1, OpB, op2, OpC>>)

\* (a op1 b) op2 c
GroupLeftText(op1, op2) ==
    Join(<<W(<<"(">>), OpA, op1, OpB, W(<<")">>), op2, OpC>>)

\* a op1 (b op2 c)
GroupRightText(op1, op2) ==
    Join(<<OpA, op1, W(<<"(">>), OpB, op2, OpC, W(<<")">>)>>)

\* 1 + (2 + 3) + 4
GroupMiddleText ==
    Join(<<W(<<"1">>), W(<<"+">>), W(<<"(">>), W(<<"2">>), W(<<"+">>), W(<<"3">>),
           W(<<")">>), W(<<"+">>), W(<<"4">>)>>)

ExpressionInputs ==
    {InfixText(o[1], o[2]) : o \in InfixOps \X InfixOps}
    \cup {GroupLeftText(o[1], o[2]) : o \in InfixOps \X InfixOps}
    \cup {GroupRightText(o[1], o[2]) : o \in InfixOps \X InfixOps}
    \cup {GroupMiddleText}

PrefixOps == {W(<<"!">>), W(<<"-">>)}

OperandLexemes == {W(<<"a">>), W(<<"5">>), W(<<"1", "5">>)}

\* !5, -15, -a
PrefixText(op, operand) == op \o operand

\* -a * b
PrefixInfixText(op, op2) == Join(<<op \o OpA, op2, OpB>>)

PrefixInputs ==
    {PrefixText(o[1], o[2]) : o \in PrefixOps \X OperandLexemes}
    \cup {PrefixInfixText(o[1], o[2]) : o \in PrefixOps \X InfixOps}

\* One more than the largest int64, and a run of twenty digits.
TooBigLexemes ==
    {W(<<"9", "2", "2", "3", "3", "7", "2", "0", "3", "6", "8", "5", "4", "7", "7", "5",
         "8", "0", "8">>),
     W(<<"9", "9", "9", "9", "9", "9", "9", "9", "9", "9", "9", "9", "9", "9", "9", "9",
         "9", "9", "9", "9">>)}

\* Digit runs, with and without leading zeros.
IntegerInputs ==
    {W(<<"5">>), W(<<"0">>), W(<<"1", "0">>), W(<<"0", "0", "7">>), W(<<"0", "1", "0">>),
     W(<<"0", "8">>), W(<<"1", "2", "3", "4">>)}
    \cup TooBigLexemes

\* Texts that are one expression each.
ExpressionTexts ==
    ExpressionInputs \cup PrefixInputs \cup IntegerInputs \cup IdentLexemes

\* e;
TerminatedInputs == {e \o W(<<";">>) : e \in ExpressionTexts}

BadLexemes ==
    {W(<<"(">>), W(<<")">>), W(<<"-">>), W(<<"+">>), W(<<"=">>), W(<<"5">>), W(<<"x">>),
     W(<<"l", "e", "t">>)}

\* One or two lexemes, a semicolon, and a well-formed let statement.
RecoveryInputs ==
    {Join(<<Join(bad), W(<<";">>), LetText(W(<<"y">>), W(<<"5">>))>>) :
        bad \in SeqsUpTo(BadLexemes, 2) \ {<<>>}}

\* One or two lexemes and a well-formed let statement right after them.
UnseparatedInputs ==
    {Join(<<Join(bad), LetText(W(<<"y">>), W(<<"5">>))>>) :
        bad \in SeqsUpTo(BadLexemes, 2) \ {<<>>}}

\* Texts that start with a token no expression can start with.
NoPrefixInputs ==
    {W(<<"*">>), W(<<"@">>), W(<<"*", " ", "5">>), W(<<"@", " ", "5">>), W(<<"=", "=">>),
     W(<<"{">>), W(<<",">>)}

\* An expression followed by an opening parenthesis: a ( b ), a + b ( c )
CallLikeInputs ==
    {Join(<<OpA, W(<<"(">>), OpB, W(<<")">>)>>),
     Join(<<OpA, W(<<"+">>), OpB, W(<<"(">>), OpC, W(<<")">>)>>),
     Join(<<W(<<"-">>) \o OpA, W(<<"(">>), OpB, W(<<")">>)>>),
     Join(<<W(<<"5">>), W(<<"*">>), W(<<"5">>), W(<<"(">>)>>)}

JunkLexemes ==
    {W(<<"(">>), W(<<")">>), W(<<"@">>), W(<<"5">>), W(<<"+">>), W(<<"=">>), W(<<"y">>),
     W(<<"l", "e", "t">>)}

\* let x = <one or two lexemes of any kind> ;
LetJunkInputs ==
    {Join(<<W(<<"l", "e", "t">>), W(<<"x">>), W(<<"=">>), Join(junk), W(<<";">>)>>) :
        junk \in SeqsUpTo(JunkLexemes, 2) \ {<<>>}}

\* An opening parenthesis and an expression that no ) follows.
UnclosedInputs ==
    {Join(<<W(<<"(">>), W(<<"1">>), W(<<"+">>), W(<<"2">>)>>),
     Join(<<W(<<"(">>), W(<<"1">>), W(<<"2">>), W(<<")">>)>>),
     Join(<<W(<<"(">>), OpA, W(<<";">>)>>),
     Join(<<W(<<"(">>), W(<<"(">>), OpA, W(<<")">>), OpB>>),
     Join(<<W(<<"1">>), W(<<"+">>), W(<<"(">>), W(<<"2">>), W(<<"3">>)>>)}

\* Texts that leave an operand out, or put one where it does not convert.
PartialInputs ==
    {Join(<<W(<<"1">>), W(<<"+">>)>>), W(<<"-">>), W(<<"!">>)}
    \cup {Join(<<e, W(<<"+">>), W(<<"1">>)>>) : e \in TooBigLexemes}
    \cup {Join(<<W(<<"l", "e", "t">>), W(<<"=">>), W(<<"5">>)>>) \o W(<<";">>)}

ParserInputs ==
    SoupInputs \cup LetPrograms \cup ReturnPrograms \cup ExpressionTexts
    \cup TerminatedInputs \cup RecoveryInputs \cup UnseparatedInputs \cup NoPrefixInputs
    \cup CallLikeInputs \cup LetJunkInputs \cup UnclosedInputs \cup PartialInputs

(***************************************************************************)
(* The parser as a state machine: one ParseProgram call on a fresh Parser. *)
(***************************************************************************)
Init ==
    /\ \E input \in ParserInputs :
          /\ p = ParserNew(LexerNew(input))
          /\ lx = LexerNew(input)
    /\ out = <<>>
    /\ program = <<>>
    /\ stmt = NilStmt
    /\ pc = "loop"
    /\ heap = <<>>
    /\ scanners = <<>>
    /\ outs = <<>>

\* The scanner cursor is unbounded in a loop that never exits; the model
\* follows it MaxOverrun bytes past the end of the input.
WithinOverrun == p.l.readPosition < Len(p.l.input) + MaxOverrun

\* for p.curToken.Type != token.EOF { stmt := p.parseStatement() ...
ParseStatement ==
    /\ pc = "loop"
    /\ p.curToken.Type # EOF
    /\ WithinOverrun
    /\ \E r \in {parseStatement(p)} :
          /\ p' = r.p
          /\ stmt' = r.stmt
          /\ pc' = IF r.skip THEN "skip" ELSE "append"
    /\ UNCHANGED <<lx, out, program, heap, scanners, outs>>

\* for !p.curTokenIs(token.SEMICOLON) { p.nextToken() }
SkipStep ==
    /\ pc = "skip"
    /\ ~curTokenIs(p, SEMICOLON)
    /\ WithinOverrun
    /\ p' = nextToken(p)
    /\ UNCHANGED <<lx, out, program, stmt, pc, heap, scanners, outs>>

\* the skip loop ends and parseLetStatement / parseReturnStatement returns stmt
SkipExit ==
    /\ pc = "skip"
    /\ curTokenIs(p, SEMICOLON)
    /\ pc' = "append"
    /\ UNCHANGED <<lx, out, p, program, stmt, heap, scanners, outs>>

\* if stmt != nil { append }; p.nextToken()
AppendStatement ==
    /\ pc = "append"
    /\ WithinOverrun
    /\ program' = IF stmt.type # "nil" THEN Append(program, stmt) ELSE program
    /\ p' = nextToken(p)
    /\ pc' = "loop"
    /\ UNCHANGED <<lx, out, stmt, heap, scanners, outs>>

\* the loop condition fails: return program
ReturnProgram ==
    /\ pc = "loop"
    /\ p.curToken.Type = EOF
    /\ pc' = "done"
    /\ UNCHANGED <<lx, out, p, program, stmt, heap, scanners, outs>>

Next ==
    \/ ParseStatement
    \/ SkipStep
    \/ SkipExit
    \/ AppendStatement
    \/ ReturnProgram

Spec == Init /\ [][Next]_vars

(***************************************************************************)
(* The scanner on its own: NextToken called again and again on one Lexer,  *)
(* also after it has returned EOF.                                         *)
(***************************************************************************)
MaxLexLen == 3

\* 233 is a byte above 0x7f.
LexBytes == {0, B(" "), B("="), B("!"), B("a"), B("5"), B("@"), 233}

\* Runs of letters: the words of the language and near misses.
WordInputs ==
    {W(<<"f", "n">>), W(<<"l", "e", "t">>), W(<<"t", "r", "u", "e">>),
     W(<<"f", "a", "l", "s", "e">>), W(<<"i", "f">>), W(<<"e", "l", "s", "e">>),
     W(<<"r", "e", "t", "u", "r", "n">>), W(<<"l", "e", "t", "x">>), W(<<"L", "e", "t">>),
     W(<<"r", "e", "t", "u", "r", "n", "s">>), W(<<"f", "o", "o", "_", "b", "a", "r">>),
     W(<<"_">>)}

\* Each operator and delimiter on its own.
SingleTokenInputs ==
    {W(<<"=">>), W(<<"+">>), W(<<"-">>), W(<<"!">>), W(<<"*">>), W(<<"/">>), W(<<"<">>),
     W(<<">">>), W(<<"=", "=">>), W(<<"!", "=">>), W(<<",">>), W(<<";">>), W(<<"(">>),
     W(<<")">>), W(<<"{">>), W(<<"}">>)}

\* Digit runs, alone, after a minus sign and between other bytes.
DigitInputs ==
    {W(<<"-", "5">>), W(<<"-", "1", "5">>), W(<<"1", "2", "3", "4">>),
     W(<<"0", "0", "7">>), W(<<"1", "2", "-", "3", "4">>), W(<<"x", "-", "1", "0">>),
     <<B("1"), TAB, B("2"), LF, B("3")>>, W(<<"-", "-", "5">>)}

LexInputs ==
    SeqsUpTo(LexBytes, MaxLexLen) \cup WordInputs \cup SingleTokenInputs \cup DigitInputs

LexInit ==
    /\ \E input \in LexInputs : lx = LexerNew(input)
    /\ out = <<>>
    /\ p = ParserNew(LexerNew(<<>>))
    /\ program = <<>>
    /\ stmt = NilStmt
    /\ pc = "scan"
    /\ heap = <<>>
    /\ scanners = <<>>
    /\ outs = <<>>

\* tok := l.NextToken()
CallNextToken ==
    /\ pc = "scan"
    /\ lx.readPosition < Len(lx.input) + MaxOverrun
    /\ \E r \in {NextToken(lx)} :
          /\ lx' = r.l
          /\ out' = Append(out, r.tok)
    /\ UNCHANGED <<p, program, stmt, pc, heap, scanners, outs>>

LexNext == CallNextToken

LexSpec == LexInit /\ [][LexNext]_vars

\* The token loop of repl.Start: the tokens before the first EOF token.
RECURSIVE ScanFrom(_)
ScanFrom(l) ==
    IF NextToken(l).tok.Type = EOF THEN <<>>
    ELSE <<NextToken(l).tok>> \o ScanFrom(NextToken(l).l)

Scan(input) == ScanFrom(LexerNew(input))

(***************************************************************************)
(* Two scanners at once.  lexer.New returns a pointer and the methods of   *)
(* Lexer have pointer receivers: a Lexer is an object on the heap, a       *)
(* scanner is its address, and a call changes the object at that address.  *)
(***************************************************************************)
MaxPairLen == 2

PairInputs ==
    SeqsUpTo(LexBytes, MaxPairLen) \cup WordInputs \cup SingleTokenInputs \cup DigitInputs

\* A variant of New that keeps one Lexer object and hands out its address.
New_Shared(h, input) == [heap |-> <<LexerNew(input)>>, l |-> 1]

\* l := &Lexer{input: input}; l.readChar(); return l
\* on the heap h: the heap with the new object, and its address.
New(h, input) == [heap |-> Append(h, LexerNew(input)), l |-> Len(h) + 1]

\* l.NextToken() for the pointer l on the heap h: the token returned, and
\* the heap with the object at l as the call leaves it.
NextTokenAt(h, l) ==
    [tok |-> NextToken(h[l]).tok, heap |-> [h EXCEPT ![l] = NextToken(h[l]).l]]

\* a := lexer.New(input); b := lexer.New(input)
PairInit ==
    /\ \E input \in PairInputs :
          \E a \in {New(<<>>, input)} :
             \E b \in {New(a.heap, input)} :
                /\ heap = b.heap
                /\ scanners = <<a.l, b.l>>
    /\ outs = <<<<>>, <<>>>>
    /\ lx = LexerNew(<<>>)
    /\ out = <<>>
    /\ p = ParserNew(LexerNew(<<>>))
    /\ program = <<>>
    /\ stmt = NilStmt
    /\ pc = "pair"

\* tok := a.NextToken()  or  tok := b.NextToken(), in any order of calls
CallOnEither ==
    /\ pc = "pair"
    /\ \E i \in 1..2 :
          /\ heap[scanners[i]].readPosition < Len(heap[scanners[i]].input) + MaxOverrun
          /\ \E r \in {NextTokenAt(heap, scanners[i])} :
                /\ heap' = r.heap
                /\ outs' = [outs EXCEPT ![i] = Append(@, r.tok)]
    /\ UNCHANGED <<lx, out, p, program, stmt, pc, scanners>>

PairNext == CallOnEither

PairSpec == PairInit /\ [][PairNext]_vars

(***************************************************************************)
(* Properties.  input is the source text of the run; toks its tokens.      *)
(***************************************************************************)
Last(sq) == sq[Len(sq)]

TypesOf(stmts) == [i \in 1..Len(stmts) |-> stmts[i].type]

CountType(toks, t) == Cardinality({i \in 1..Len(toks) : toks[i].Type = t})

\* C1: for every finite source text ParseProgram terminates and returns a
\* Program, also when a let statement is not followed by any semicolon
\* before the end of the input.  A call that returns has its scanner read at
\* most a few bytes past the end of the input (five, see ReturnsNearTheEnd),
\* so a call that terminates never reaches MaxOverrun bytes past the end
\* without having returned.
C1_ParseProgramTerminates == pc # "done" => WithinOverrun

\* The scanner of a call that has returned is at most five bytes past the end.
ReturnsNearTheEnd == pc = "done" => p.l.readPosition <= Len(p.l.input) + 5

\* A text that starts with a let statement whose token after let is not an
\* identifier, or whose token after the identifier is not =, and holds no
\* other let.
MalformedLet(toks) ==
    /\ toks # <<>>
    /\ toks[1].Type = LET_
    /\ \/ Len(toks) < 2
       \/ toks[2].Type # IDENT
       \/ Len(toks) < 3
       \/ toks[3].Type # ASSIGN
    /\ CountType(toks, LET_) = 1

\* C2: after a malformed let statement ParseProgram returns with at least
\* one error, and the Program holds no LetStatement entry (valid, partial or
\* absent-valued) for it.
C2_MalformedLetLeavesNoEntry ==
    (pc = "done" /\ MalformedLet(Scan(p.l.input)))
        => /\ p.errors # <<>>
           /\ \A i \in 1..Len(program) : program[i].type # "*ast.LetStatement"

\* Every statement attempt of the run that starts in parser P records an
\* error (and the run returns).
RECURSIVE EveryAttemptErrs(_)
EveryAttemptErrs(P) ==
    IF P.curToken.Type = EOF THEN TRUE
    ELSE LET r == parseStatement(P)
             k == IF r.skip THEN SkipLoop(r.p) ELSE [p |-> r.p, diverges |-> FALSE]
         IN  /\ ~k.diverges
             /\ Len(k.p.errors) > Len(P.errors)
             /\ EveryAttemptErrs(nextToken(k.p))

OnlyErrors(input) ==
    /\ Scan(input) # <<>>
    /\ EveryAttemptErrs(ParserNew(LexerNew(input)))

\* C3: an input in which every statement attempt records an error yields a
\* Program with zero statements and a non-empty error list.
C3_OnlyErrorsYieldEmptyProgram ==
    (pc = "done" /\ OnlyErrors(p.l.input))
        => /\ program = <<>>
           /\ p.errors # <<>>

EOFToken == [Type |-> EOF, Literal |-> <<>>]

EOFStays == \A i \in 1..Len(out) : \A j \in i..Len(out) :
                out[i].Type = EOF => out[j] = EOFToken

\* C4: for every input byte string, once NextToken has returned an EOF token
\* every later call on the same scanner returns an EOF token with empty
\* text: no other token follows an EOF token.
C4_EOFStaysForEveryInput == EOFStays

NoZeroByte(input) == \A i \in 1..Len(input) : input[i] # 0

(***************************************************************************)
(* Expected trees, built from the tokens of the source text.               *)
(***************************************************************************)
IsOperand(tok) == tok.Type \in {IDENT, INT}

IsInfixOp(tok) == tok.Type \in {PLUS, MINUS, ASTERISK, SLASH, EQ, NOT_EQ, LT, GT}

\* The table LOWEST < EQUALS < LESSGREATER < SUM < PRODUCT of the claims.
TablePrecedence(tok) ==
    CASE tok.Type \in {EQ, NOT_EQ} -> 2
      [] tok.Type \in {LT, GT} -> 3
      [] tok.Type \in {PLUS, MINUS} -> 4
      [] tok.Type \in {ASTERISK, SLASH} -> 5

RECURSIVE DecimalValue(_)
DecimalValue(ds) ==
    IF ds = <<>> THEN 0
    ELSE 10 * DecimalValue(SubSeq(ds, 1, Len(ds) - 1)) + (Last(ds) - B("0"))

OperandNode(tok) ==
    IF tok.Type = IDENT
    THEN Identifier(tok, tok.Literal)
    ELSE [type |-> "*ast.IntegerLiteral", Token |-> tok, Value |-> DecimalValue(tok.Literal)]

InfixNode(op, left, right) ==
    [type |-> "*ast.InfixExpression", Token |-> op, Left |-> left,
     Operator |-> op.Literal, Right |-> right]

\* (x op1 y) op2 z and x op1 (y op2 z)
LeftNested(x, op1, y, op2, z) ==
    InfixNode(op2, InfixNode(op1, OperandNode(x), OperandNode(y)), OperandNode(z))

RightNested(x, op1, y, op2, z) ==
    InfixNode(op1, OperandNode(x), InfixNode(op2, OperandNode(y), OperandNode(z)))

Sp == Str(<<" ">>)
LP == Str(<<"(">>)
RP == Str(<<")">>)

LeftNestedText(x, op1, y, op2, z) ==
    LP \o LP \o x.Literal \o Sp \o op1.Literal \o Sp \o y.Literal \o RP
       \o Sp \o op2.Literal \o Sp \o z.Literal \o RP

RightNestedText(x, op1, y, op2, z) ==
    LP \o x.Literal \o Sp \o op1.Literal \o Sp
       \o LP \o y.Literal \o Sp \o op2.Literal \o Sp \o z.Literal \o RP \o RP

\* The Program is one ExpressionStatement wrapping e, with no error recorded.
ParsedAs(e) ==
    /\ p.errors = <<>>
    /\ Len(program) = 1
    /\ program[1].type = "*ast.ExpressionStatement"
    /\ program[1].Expression = e

RendersAs(text) == ProgramString(program) = Text(text)

\* x op1 y op2 z
IsInfixChain(toks) ==
    /\ Len(toks) = 5
    /\ IsOperand(toks[1]) /\ IsInfixOp(toks[2]) /\ IsOperand(toks[3])
    /\ IsInfixOp(toks[4]) /\ IsOperand(toks[5])

C5_Holds(toks) ==
    IF TablePrecedence(toks[2]) < TablePrecedence(toks[4])
    THEN /\ ParsedAs(RightNested(toks[1], toks[2], toks[3], toks[4], toks[5]))
         /\ RendersAs(RightNestedText(toks[1], toks[2], toks[3], toks[4], toks[5]))
    ELSE /\ ParsedAs(LeftNested(toks[1], toks[2], toks[3], toks[4], toks[5]))
         /\ RendersAs(LeftNestedText(toks[1], toks[2], toks[3], toks[4], toks[5]))

\* C5: when the two infix operators of x op1 y op2 z differ in precedence,
\* the operator of higher precedence binds first: the tree is
\* (x op1 (y op2 z)) when op2 is the higher, ((x op1 y) op2 z) when op1 is,
\* and it renders with these parentheses.
C5_HigherPrecedenceBindsFirst ==
    (/\ pc = "done"
     /\ IsInfixChain(Scan(p.l.input))
     /\ TablePrecedence(Scan(p.l.input)[2]) # TablePrecedence(Scan(p.l.input)[4]))
        => C5_Holds(Scan(p.l.input))

\* a + b * c has been parsed into (a + (b * c)).
C5_Witness ==
    /\ pc = "done"
    /\ p.l.input = InfixText(W(<<"+">>), W(<<"*">>))
    /\ RendersAs(Str(<<"(", "a", " ", "+", " ", "(", "b", " ", "*", " ", "c", ")", ")">>))
    /\ program[1].Expression.Right.type = "*ast.InfixExpression"

C6_Holds(toks) ==
    /\ ParsedAs(LeftNested(toks[1], toks[2], toks[3], toks[4], toks[5]))
    /\ RendersAs(LeftNestedText(toks[1], toks[2], toks[3], toks[4], toks[5]))

\* C6: two infix operators of equal precedence associate to the left:
\* x op1 y op2 z is parsed into ((x op1 y) op2 z) and renders so.
C6_EqualPrecedenceAssociatesLeft ==
    (/\ pc = "done"
     /\ IsInfixChain(Scan(p.l.input))
     /\ TablePrecedence(Scan(p.l.input)[2]) = TablePrecedence(Scan(p.l.input)[4]))
        => C6_Holds(Scan(p.l.input))

\* a + b - c has been parsed into ((a + b) - c).
C6_Witness ==
    /\ pc = "done"
    /\ p.l.input = InfixText(W(<<"+">>), W(<<"-">>))
    /\ RendersAs(Str(<<"(", "(", "a", " ", "+", " ", "b", ")", " ", "-", " ", "c", ")">>))
    /\ program[1].Expression.Left.type = "*ast.InfixExpression"

\* ( x op1 y ) op2 z
IsGroupLeft(toks) ==
    /\ Len(toks) = 7
    /\ toks[1].Type = LPAREN /\ IsOperand(toks[2]) /\ IsInfixOp(toks[3])
    /\ IsOperand(toks[4]) /\ toks[5].Type = RPAREN /\ IsInfixOp(toks[6])
    /\ IsOperand(toks[7])

\* x op1 ( y op2 z )
IsGroupRight(toks) ==
    /\ Len(toks) = 7
    /\ IsOperand(toks[1]) /\ IsInfixOp(toks[2]) /\ toks[3].Type = LPAREN
    /\ IsOperand(toks[4]) /\ IsInfixOp(toks[5]) /\ IsOperand(toks[6])
    /\ toks[7].Type = RPAREN

C7_Holds(toks) ==
    /\ IsGroupLeft(toks) =>
          /\ ParsedAs(LeftNested(toks[2], toks[3], toks[4], toks[6], toks[7]))
          /\ RendersAs(LeftNestedText(toks[2], toks[3], toks[4], toks[6], toks[7]))
    /\ IsGroupRight(toks) =>
          /\ ParsedAs(RightNested(toks[1], toks[2], toks[4], toks[5], toks[6]))
          /\ RendersAs(RightNestedText(toks[1], toks[2], toks[4], toks[5], toks[6]))
    /\ p.l.input = GroupMiddleText =>
          /\ p.errors = <<>>
          /\ RendersAs(Str(<<"(", "(", "1", " ", "+", " ", "(", "2", " ", "+", " ", "3", ")",
                             ")", " ", "+", " ", "4", ")">>))

\* C7: a parenthesised sub-expression closed by its ) is one operand of the
\* surrounding expression, whatever the precedences, and no error is
\* recorded: (x op1 y) op2 z is ((x op1 y) op2 z), x op1 (y op2 z) is
\* (x op1 (y op2 z)), and 1 + (2 + 3) + 4 renders as ((1 + (2 + 3)) + 4).
C7_GroupIsOneOperand == pc = "done" => C7_Holds(Scan(p.l.input))

\* (a + b) * c has been parsed into ((a + b) * c).
C7_Witness ==
    /\ pc = "done"
    /\ p.l.input = GroupLeftText(W(<<"+">>), W(<<"*">>))
    /\ program[1].Expression.Operator = Str(<<"*">>)
    /\ program[1].Expression.Left.type = "*ast.InfixExpression"

(***************************************************************************)
(* Rendering a Program and parsing the text again.                         *)
(***************************************************************************)
EquivalentStatement(a, b) ==
    /\ a.type = b.type
    /\ a.isNil = b.isNil
    /\ (a.type = "*ast.ExpressionStatement" /\ ~a.isNil) => a.Expression = b.Expression
    /\ (a.type = "*ast.LetStatement" /\ ~a.isNil) =>
          /\ a.Name.Value = b.Name.Value
          /\ a.Value = b.Value
    /\ (a.type = "*ast.ReturnStatement" /\ ~a.isNil) => a.ReturnValue = b.ReturnValue

\* Same number of statements, and pairwise the same kind and content.
Equivalent(a, b) ==
    /\ Len(a) = Len(b)
    /\ \A i \in 1..Len(a) : EquivalentStatement(a[i], b[i])

RoundTrip(stmts, text) ==
    /\ ~text.panic
    /\ \E again \in {Parse(text.out)} :
          /\ again.returns
          /\ Equivalent(stmts, again.Statements)

ErrorFree == pc = "done" /\ p.errors = <<>>

\* C8: rendering a Program that was parsed without any error and parsing
\* the text again yields an equivalent Program, also when the Program has
\* more than one statement.
C8_RenderThenParseIsEquivalent ==
    ErrorFree => RoundTrip(program, ProgramString(program))

\* The rendering of every statement that is followed by another one ends
\* with a semicolon or a closing parenthesis.
StatementsKeptApart(stmts) ==
    \A i \in 1..(Len(stmts) - 1) :
        \E t \in {StmtString(stmts[i])} :
            /\ ~t.panic
            /\ t.out # <<>>
            /\ Last(t.out) \in {B(";"), B(")")}

\* C8 (amended): rendering a Program that was parsed without any error and
\* parsing the text again yields an equivalent Program, provided the
\* rendering of every statement that is followed by another statement ends
\* with ; or ).
C8_RenderThenParseKeptApart ==
    (ErrorFree /\ StatementsKeptApart(program))
        => RoundTrip(program, ProgramString(program))

\* (a + b) * c was parsed without error and its rendering parses back.
C8_Witness ==
    /\ ErrorFree
    /\ Len(program) = 2
    /\ StatementsKeptApart(program)
    /\ program[1].type = "*ast.ExpressionStatement"
    /\ program[1].Expression.type = "*ast.InfixExpression"
    /\ RoundTrip(program, ProgramString(program))

(***************************************************************************)
(* Sequences of let and return statements.                                 *)
(***************************************************************************)
LetLiteral == Str(<<"l", "e", "t">>)
ReturnLiteral == Str(<<"r", "e", "t", "u", "r", "n">>)

\* n >= 1 groups of the tokens of let IDENT = INT ;
IsLetSequence(toks) ==
    /\ Len(toks) > 0
    /\ Len(toks) % 5 = 0
    /\ \A i \in 0..((Len(toks) \div 5) - 1) :
          /\ toks[5 * i + 1].Type = LET_
          /\ toks[5 * i + 2].Type = IDENT
          /\ toks[5 * i + 3].Type = ASSIGN
          /\ toks[5 * i + 4].Type = INT
          /\ toks[5 * i + 5].Type = SEMICOLON

C9_Holds(toks) ==
    /\ p.errors = <<>>
    /\ Len(program) = Len(toks) \div 5
    /\ \A i \in 1..Len(program) :
          /\ program[i].type = "*ast.LetStatement"
          /\ ~program[i].isNil
          /\ program[i].Token.Literal = LetLiteral
          /\ program[i].Name.Value = toks[5 * (i - 1) + 2].Literal
          /\ program[i].Name.Token.Literal = toks[5 * (i - 1) + 2].Literal

\* C9: a text of n statements `let IDENT = INT;` parses into exactly n
\* LetStatements, in source order, each named by its own identifier and
\* with the token text let, and records no error.
C9_LetSequenceParses ==
    (pc = "done" /\ IsLetSequence(Scan(p.l.input))) => C9_Holds(Scan(p.l.input))

\* Two let statements with different names have been parsed.
C9_Witness ==
    /\ pc = "done"
    /\ IsLetSequence(Scan(p.l.input))
    /\ Len(program) = 2
    /\ program[1].Name.Value = Str(<<"x">>)
    /\ program[2].Name.Value = Str(<<"f", "o", "o", "b", "a", "r">>)

\* n >= 1 groups of the words return INT ;
IsReturnSequence(toks) ==
    /\ Len(toks) > 0
    /\ Len(toks) % 3 = 0
    /\ \A i \in 0..((Len(toks) \div 3) - 1) :
          /\ toks[3 * i + 1].Literal = ReturnLiteral
          /\ toks[3 * i + 2].Type = INT
          /\ toks[3 * i + 3].Type = SEMICOLON

C10_Holds(toks) ==
    /\ p.errors = <<>>
    /\ Len(program) = Len(toks) \div 3
    /\ \A i \in 1..Len(program) :
          /\ program[i].type = "*ast.ReturnStatement"
          /\ program[i].Token.Literal = ReturnLiteral

\* C10: a text of n statements `return INT;` parses into exactly n
\* ReturnStatements, each with the token text return, and records no error.
C10_ReturnSequenceParses ==
    (pc = "done" /\ IsReturnSequence(Scan(p.l.input))) => C10_Holds(Scan(p.l.input))

(***************************************************************************)
(* Words: keywords and identifiers.                                        *)
(***************************************************************************)
AsciiLetter(b) ==
    \/ b \in B("a")..B("z")
    \/ b \in B("A")..B("Z")
    \/ b = B("_")

\* The longest prefix of bytes that is made of letters and underscores.
RECURSIVE LeadingRun(_)
LeadingRun(bytes) ==
    IF bytes # <<>> /\ AsciiLetter(Head(bytes))
    THEN <<Head(bytes)>> \o LeadingRun(Tail(bytes))
    ELSE <<>>

\* The keyword table fn, let, true, false, if, else, return.
WordKind(text) ==
    CASE text = Str(<<"f", "n">>) -> FUNCTION
      [] text = Str(<<"l", "e", "t">>) -> LET_
      [] text = Str(<<"t", "r", "u", "e">>) -> TRUE_
      [] text = Str(<<"f", "a", "l", "s", "e">>) -> FALSE_
      [] text = Str(<<"i", "f">>) -> IF_
      [] text = Str(<<"e", "l", "s", "e">>) -> ELSE_
      [] text = Str(<<"r", "e", "t", "u", "r", "n">>) -> RETURN
      [] OTHER -> IDENT

\* C11: a maximal run of letters and underscores is scanned as one token
\* whose text is the run; its kind is the keyword kind when the text is one
\* of fn, let, true, false, if, else, return, and IDENT otherwise.
C11_WordIsKeywordOrIdentifier ==
    (/\ Len(out) >= 1
     /\ lx.input # <<>>
     /\ AsciiLetter(lx.input[1]))
        => out[1] = [Type |-> WordKind(LeadingRun(lx.input)),
                     Literal |-> LeadingRun(lx.input)]

(***************************************************************************)
(* Integer literals.                                                       *)
(***************************************************************************)
\* The decimal value of the digit run ds is at most 2^63 - 1.
FitsInt64(ds) ==
    \E sig \in {StripZeros(ds)} :
        \/ Len(sig) < Len(MaxInt64Digits)
        \/ Len(sig) = Len(MaxInt64Digits) /\ LeqDigits(sig, MaxInt64Digits)

\* one token of kind t, followed by an optional semicolon
IsSingle(toks, t) ==
    /\ Len(toks) \in {1, 2}
    /\ toks[1].Type = t
    /\ Len(toks) = 2 => toks[2].Type = SEMICOLON

\* C12: a digit run d whose decimal value fits in 64 bits, followed by an
\* optional semicolon, parses into one ExpressionStatement wrapping an
\* IntegerLiteral of that decimal value and of token text d, with no error;
\* leading zeros included.
C12_DigitRunHasDecimalValue ==
    (/\ pc = "done"
     /\ IsSingle(Scan(p.l.input), INT)
     /\ FitsInt64(Scan(p.l.input)[1].Literal))
        => ParsedAs(OperandNode(Scan(p.l.input)[1]))

(***************************************************************************)
(* Prefix expressions.                                                     *)
(***************************************************************************)
IsPrefixOp(tok) == tok.Type \in {BANG, MINUS}

PrefixNode(op, right) ==
    [type |-> "*ast.PrefixExpression", Token |-> op, Operator |-> op.Literal,
     Right |-> right]

\* op x, followed by an optional semicolon
IsPrefixed(toks) ==
    /\ Len(toks) \in {2, 3}
    /\ IsPrefixOp(toks[1]) /\ IsOperand(toks[2])
    /\ Len(toks) = 3 => toks[3].Type = SEMICOLON

\* op x op2 y
IsPrefixedLeft(toks) ==
    /\ Len(toks) = 4
    /\ IsPrefixOp(toks[1]) /\ IsOperand(toks[2]) /\ IsInfixOp(toks[3])
    /\ IsOperand(toks[4])

C13_Holds(toks) ==
    /\ IsPrefixed(toks) =>
          /\ ParsedAs(PrefixNode(toks[1], OperandNode(toks[2])))
          /\ RendersAs(LP \o toks[1].Literal \o toks[2].Literal \o RP)
    /\ IsPrefixedLeft(toks) =>
          ParsedAs(InfixNode(toks[3], PrefixNode(toks[1], OperandNode(toks[2])),
                             OperandNode(toks[4])))

\* C13: for op one of ! and -, op x parses into one ExpressionStatement
\* wrapping a PrefixExpression with that operator and x as its right child,
\* and the prefix operator binds tighter than every infix operator:
\* op x op2 y is ((op x) op2 y).
C13_PrefixBindsTightest == pc = "done" => C13_Holds(Scan(p.l.input))

\* -a * b has been parsed into ((-a) * b).
C13_Witness ==
    /\ pc = "done"
    /\ p.l.input = PrefixInfixText(W(<<"-">>), W(<<"*">>))
    /\ program[1].Expression.Operator = Str(<<"*">>)
    /\ program[1].Expression.Left.type = "*ast.PrefixExpression"
    /\ program[1].Expression.Left.Right.Value = Str(<<"a">>)

(***************************************************************************)
(* Identifier expressions.                                                 *)
(***************************************************************************)
C14_Holds(tok) ==
    /\ p.errors = <<>>
    /\ Len(program) = 1
    /\ program[1].type = "*ast.ExpressionStatement"
    /\ program[1].Expression.type = "*ast.Identifier"
    /\ program[1].Expression.Value = tok.Literal
    /\ program[1].Expression.Token.Literal = tok.Literal

\* C14: a single identifier followed by an optional semicolon parses into
\* exactly one ExpressionStatement wrapping an Identifier whose value and
\* token text are the identifier text, with no error.
C14_IdentifierExpression ==
    (pc = "done" /\ IsSingle(Scan(p.l.input), IDENT)) => C14_Holds(Scan(p.l.input)[1])

FoobarText == Str(<<"f", "o", "o", "b", "a", "r">>)

\* foobar; has been parsed.
C14_Witness ==
    /\ pc = "done"
    /\ p.l.input = FoobarText \o Str(<<";">>)
    /\ Len(program) = 1
    /\ program[1].Expression.Value = FoobarText

(***************************************************************************)
(* Operators and delimiters on their own.                                  *)
(***************************************************************************)
\* The kind that matches each of = + - ! * / < > == != , ; ( ) { }
SingleKind(text) ==
    CASE text = Str(<<"=">>) -> ASSIGN
      [] text = Str(<<"+">>) -> PLUS
      [] text = Str(<<"-">>) -> MINUS
      [] text = Str(<<"!">>) -> BANG
      [] text = Str(<<"*">>) -> ASTERISK
      [] text = Str(<<"/">>) -> SLASH
      [] text = Str(<<"<">>) -> LT
      [] text = Str(<<">">>) -> GT
      [] text = Str(<<"=", "=">>) -> EQ
      [] text = Str(<<"!", "=">>) -> NOT_EQ
      [] text = Str(<<",">>) -> COMMA
      [] text = Str(<<";">>) -> SEMICOLON
      [] text = Str(<<"(">>) -> LPAREN
      [] text = Str(<<")">>) -> RPAREN
      [] text = Str(<<"{">>) -> LBRACE
      [] text = Str(<<"}">>) -> RBRACE
      [] OTHER -> "none"

\* C15: on each input s among = + - ! * / < > == != , ; ( ) { } the first
\* NextToken of a fresh scanner returns one token of the kind matching s
\* whose text is the whole of s, and the second returns EOF with empty text.
C15_SingleTokenThenEOF ==
    SingleKind(lx.input) # "none" =>
        /\ Len(out) >= 1 => out[1] = [Type |-> SingleKind(lx.input), Literal |-> lx.input]
        /\ Len(out) >= 2 => out[2] = [Type |-> EOF, Literal |-> <<>>]

\* == has been scanned into EQ and EOF.
C15_Witness ==
    /\ lx.input = Str(<<"=", "=">>)
    /\ Len(out) = 2
    /\ out[1].Type = EQ
    /\ out[2].Type = EOF

(***************************************************************************)
(* Errors accumulate and the parse goes on.                                *)
(***************************************************************************)
IsPrefixSeq(a, b) == Len(a) <= Len(b) /\ SubSeq(b, 1, Len(a)) = a

\* ... let IDENT = INT ;  at the end of the tokens, after at least one token
EndsWithLet(toks) ==
    /\ Len(toks) >= 6
    /\ IsLetSequence(SubSeq(toks, Len(toks) - 4, Len(toks)))

\* The last statement of the Program is the let statement that ends toks.
LastIsThatLet(toks) ==
    /\ program # <<>>
    /\ Last(program).type = "*ast.LetStatement"
    /\ ~Last(program).isNil
    /\ Last(program).Name.Value = toks[Len(toks) - 3].Literal

\* A statement has recorded an error and a well-formed let statement follows
\* it: the let statement is in the Program that ParseProgram returns.
LetAfterFailureAppears ==
    (/\ pc = "done"
     /\ p.errors # <<>>
     /\ EndsWithLet(Scan(p.l.input)))
        => LastIsThatLet(Scan(p.l.input))

\* Every step keeps the errors recorded so far and only appends to them.
ErrorsOnlyAppended == IsPrefixSeq(p.errors, p'.errors)

\* C16: errors accumulate and never stop the parse: every step leaves the
\* errors recorded so far in place and only appends to them, and the parse
\* goes on after a statement that records an error, so that a well-formed
\* let statement that follows the failed statement is in the Program.
C16_ErrorsAccumulate == [][ErrorsOnlyAppended]_vars /\ []LetAfterFailureAppears

(***************************************************************************)
(* Integer literals that do not fit.                                       *)
(***************************************************************************)
\* The current token is a digit run whose value is above 2^63 - 1.
AtTooBigInt == p.curToken.Type = INT /\ ~FitsInt64(p.curToken.Literal)

\* r is the outcome of a call: one error more, no expression, and the
\* token window and the scanner where they were.
OneErrorNothingElse(r) ==
    /\ r.exp = NilExpr
    /\ Len(r.p.errors) = Len(p.errors) + 1
    /\ IsPrefixSeq(p.errors, r.p.errors)
    /\ r.p.curToken = p.curToken
    /\ r.p.peekToken = p.peekToken
    /\ r.p.l = p.l

\* C17: on an INT token whose digits do not convert to a signed 64-bit
\* integer, parserIntegerLiteral appends exactly one error, returns no
\* expression and does not advance the token window.
C17_TooBigIntIsOneError ==
    AtTooBigInt => \E r \in {parserIntegerLiteral(p)} : OneErrorNothingElse(r)

\* The statement made of 9223372036854775808 has been parsed: one error, no
\* expression, and the token is still the current one.
C17_Witness ==
    /\ pc = "append"
    /\ AtTooBigInt
    /\ p.l.input \in TooBigLexemes
    /\ stmt.Expression = NilExpr
    /\ Len(p.errors) = 1
    /\ p.errors[1].lit = p.curToken.Literal

(***************************************************************************)
(* The semicolon after an expression statement.                            *)
(***************************************************************************)
\* The text without its last byte.
Unterminated(text) == SubSeq(text, 1, Len(text) - 1)

\* The Program and the errors of this run are those of a run on text.
SameOutcomeAs(text) ==
    \E r \in {Parse(text)} :
        /\ r.returns
        /\ r.Statements = program
        /\ r.errors = p.errors

\* C18: the semicolon that ends an expression statement is optional: the
\* texts e and e; give equal Programs and equal error lists, and the
\* semicolon is consumed with the statement, it starts no statement of its
\* own.
C18_SemicolonIsOptional ==
    (pc = "done" /\ p.l.input \in TerminatedInputs) =>
        /\ SameOutcomeAs(Unterminated(p.l.input))
        /\ Len(program) = 1
        /\ p.curToken.Type = EOF

\* a + b * c; has been parsed into the one statement of a + b * c.
C18_Witness ==
    /\ pc = "done"
    /\ p.l.input = InfixText(W(<<"+">>), W(<<"*">>)) \o Str(<<";">>)
    /\ Len(program) = 1
    /\ program[1].Expression.type = "*ast.InfixExpression"
    /\ SameOutcomeAs(InfixText(W(<<"+">>), W(<<"*">>)))

(***************************************************************************)
(* Two scanners on the same input.                                         *)
(***************************************************************************)
\* The two scanners have returned equal tokens, kind and text, at every call
\* index that both have reached.
SameAtEveryIndex ==
    \A i \in 1..Len(outs[1]) : i <= Len(outs[2]) => outs[1][i] = outs[2][i]

\* C19: scanning is deterministic: two fresh scanners made by New on the
\* same input return identical tokens, kind and text, at every NextToken
\* call index, in whatever order the calls on the two are made.
C19_ScanningIsDeterministic ==
    /\ heap[scanners[1]].input = heap[scanners[2]].input
    /\ SameAtEveryIndex

\* The first scanner has made three calls and the second two, on an input
\* whose first two tokens differ: the second scanner returned the first two
\* tokens over again.
C19_Witness ==
    /\ Len(outs[1]) = 3
    /\ Len(outs[2]) = 2
    /\ outs[1][1] # outs[1][2]
    /\ outs[2] = SubSeq(outs[1], 1, 2)
    /\ heap[scanners[1]] # heap[scanners[2]]

(***************************************************************************)
(* expectPeek.                                                             *)
(***************************************************************************)
TokenKinds ==
    {ILLEGAL, EOF, IDENT, INT, ASSIGN, PLUS, MINUS, BANG, ASTERISK, SLASH, LT, GT, EQ,
     NOT_EQ, COMMA, SEMICOLON, LPAREN, RPAREN, LBRACE, RBRACE, FUNCTION, LET_, TRUE_,
     FALSE_, IF_, ELSE_, RETURN}

\* expected next token to be <kind>, got <peek kind> instead
ExpectedGot(kind, peekKind) ==
    [fmt |-> "expected next token to be %s, got %s instead",
     types |-> <<kind, peekKind>>, lit |-> <<>>]

\* r is the outcome of a successful call: the window has moved by one token.
AdvancedByOne(r) ==
    /\ r.ok
    /\ r.p.curToken = p.peekToken
    /\ r.p.peekToken = NextToken(p.l).tok
    /\ r.p.l = NextToken(p.l).l
    /\ r.p.errors = p.errors

\* r is the outcome of a failed call: one error more and nothing else.
RefusedWithError(r, kind) ==
    /\ ~r.ok
    /\ r.p.errors = Append(p.errors, ExpectedGot(kind, p.peekToken.Type))
    /\ r.p.curToken = p.curToken
    /\ r.p.peekToken = p.peekToken
    /\ r.p.l = p.l

\* C20: expectPeek(kind) advances the token window by exactly one token,
\* returns success and appends no error when the peek token has that kind;
\* otherwise it appends the one error expected next token to be <kind>, got
\* <peek kind> instead, returns failure and leaves the current token, the
\* peek token and the scanner as they were.
C20_ExpectPeekFrame ==
    \A kind \in TokenKinds :
        \E r \in {expectPeek(p, kind)} :
            IF p.peekToken.Type = kind THEN AdvancedByOne(r) ELSE RefusedWithError(r, kind)

\* In let = ... the call expectPeek(IDENT) has failed: the statement is
\* given up, its error is recorded and let is still the current token.
C20_Witness ==
    /\ pc = "append"
    /\ stmt = NilLetStatement
    /\ p.errors = <<ExpectedGot(IDENT, ASSIGN)>>
    /\ p.curToken.Type = LET_
    /\ p.peekToken.Type = ASSIGN

(***************************************************************************)
(* parseExpression on a token that starts no expression.                   *)
(***************************************************************************)
\* The kinds no prefix handler is registered for.
NoPrefixKinds == TokenKinds \ {IDENT, INT, BANG, MINUS, TRUE_, FALSE_, LPAREN}

\* no prefix parse function for <kind> found
NoPrefixFound(kind) ==
    [fmt |-> "no prefix parse function for %s found", types |-> <<kind>>, lit |-> <<>>]

\* r is the outcome of a call that found no handler: one error more, no
\* expression, the token window and the scanner where they were.
RefusedNoPrefix(r) ==
    /\ r.exp = NilExpr
    /\ r.p.errors = Append(p.errors, NoPrefixFound(p.curToken.Type))
    /\ r.p.curToken = p.curToken
    /\ r.p.peekToken = p.peekToken
    /\ r.p.l = p.l

\* C21: entered on a current token whose kind has no prefix handler,
\* parseExpression appends exactly one error no prefix parse function for
\* <kind> found, returns no expression and does not advance the token
\* window, whatever the precedence it is called with.
C21_NoPrefixIsOneError ==
    p.curToken.Type \in NoPrefixKinds =>
        \A precedence \in LOWEST..CALL :
            \E r \in {parseExpression(p, precedence)} : RefusedNoPrefix(r)

\* The statement that starts with ) has been parsed: one error, no
\* expression, and ) is still the current token.
C21_Witness ==
    /\ pc = "append"
    /\ p.curToken.Type = RPAREN
    /\ stmt.type = "*ast.ExpressionStatement"
    /\ stmt.Expression = NilExpr
    /\ p.errors = <<NoPrefixFound(RPAREN)>>

(***************************************************************************)
(* An opening parenthesis after an expression.                             *)
(***************************************************************************)
\* The current token is an identifier and ( follows it.
AtIdentThenParen == p.curToken.Type = IDENT /\ p.peekToken.Type = LPAREN

\* C22: when the peek token is (, which has the precedence CALL and no
\* infix handler, parseExpression stops and returns the left expression
\* built so far as it is: the parser is not advanced onto the ( and no
\* error is recorded, at every precedence level below CALL.
C22_NoInfixHandlerStops ==
    AtIdentThenParen =>
        \A precedence \in LOWEST..PREFIX :
            /\ parseExpression(p, precedence) = [p |-> p, exp |-> OperandNode(p.curToken)]
            /\ \A left \in {NilExpr, OperandNode(p.curToken)} :
                  parseInfixLoop([p |-> p, exp |-> left], precedence)
                      = [p |-> p, exp |-> left]

\* The statement a + b of a + b ( c ) has been parsed: it stops before the
\* (, on b, with no error.
C22_Witness ==
    /\ pc = "append"
    /\ AtIdentThenParen
    /\ p.errors = <<>>
    /\ p.curToken.Literal = OpB
    /\ stmt.type = "*ast.ExpressionStatement"
    /\ stmt.Expression.type = "*ast.InfixExpression"
    /\ stmt.Expression.Right = OperandNode(p.curToken)

(***************************************************************************)
(* The two-character operators.                                            *)
(***************************************************************************)
\* The byte after the current one is b.
NextByteIs(b) == lx.readPosition < Len(lx.input) /\ lx.input[lx.readPosition + 1] = b

\* r is the outcome of a NextToken call that returns the token tok and moves
\* the cursor by n bytes.
ReturnsAndMoves(r, tok, n) == r.tok = tok /\ r.l.position = lx.position + n

C23_Lookahead ==
    /\ (lx.ch = B("=") /\ NextByteIs(B("="))) =>
          ReturnsAndMoves(NextToken(lx), [Type |-> EQ, Literal |-> Str(<<"=", "=">>)], 2)
    /\ (lx.ch = B("=") /\ ~NextByteIs(B("="))) =>
          ReturnsAndMoves(NextToken(lx), [Type |-> ASSIGN, Literal |-> Str(<<"=">>)], 1)
    /\ (lx.ch = B("!") /\ NextByteIs(B("="))) =>
          ReturnsAndMoves(NextToken(lx), [Type |-> NOT_EQ, Literal |-> Str(<<"!", "=">>)], 2)
    /\ (lx.ch = B("!") /\ ~NextByteIs(B("="))) =>
          ReturnsAndMoves(NextToken(lx), [Type |-> BANG, Literal |-> Str(<<"!">>)], 1)

KindsOf(toks) == [i \in 1..Len(toks) |-> toks[i].Type]

\* C23: on = (on !) followed by =, NextToken consumes both bytes and returns
\* one EQ (NOT_EQ) token of text == (!=); otherwise it consumes one byte and
\* returns ASSIGN (BANG).  Hence === scans as EQ, ASSIGN and = = as ASSIGN,
\* ASSIGN.
C23_TwoCharacterLookahead ==
    /\ C23_Lookahead
    /\ (lx.input = Str(<<"=", "=", "=">>) /\ Len(out) >= 3) =>
          KindsOf(SubSeq(out, 1, 3)) = <<EQ, ASSIGN, EOF>>
    /\ (lx.input = Str(<<"=", " ", "=">>) /\ Len(out) >= 3) =>
          KindsOf(SubSeq(out, 1, 3)) = <<ASSIGN, ASSIGN, EOF>>

\* === has been scanned into EQ, ASSIGN and the end of input.
C23_Witness ==
    /\ lx.input = Str(<<"=", "=", "=">>)
    /\ Len(out) = 3
    /\ out[1] = [Type |-> EQ, Literal |-> Str(<<"=", "=">>)]
    /\ out[2] = [Type |-> ASSIGN, Literal |-> Str(<<"=">>)]

(***************************************************************************)
(* Digit runs.                                                             *)
(***************************************************************************)
AsciiDigit(b) == b \in B("0")..B("9")

\* The longest prefix of bytes that is made of digits.
RECURSIVE LeadingDigits(_)
LeadingDigits(bytes) ==
    IF bytes # <<>> /\ AsciiDigit(Head(bytes))
    THEN <<Head(bytes)>> \o LeadingDigits(Tail(bytes))
    ELSE <<>>

\* The input from the byte under the cursor on, and from the byte after it.
FromCursor == SubSeq(lx.input, lx.position + 1, Len(lx.input))
AfterCursor == SubSeq(lx.input, lx.position + 2, Len(lx.input))

IntOf(run) == [Type |-> INT, Literal |-> run]

C24_DigitRun ==
    AsciiDigit(lx.ch) =>
        ReturnsAndMoves(NextToken(lx), IntOf(LeadingDigits(FromCursor)),
                        Len(LeadingDigits(FromCursor)))

C24_MinusThenDigits ==
    (lx.ch = B("-") /\ LeadingDigits(AfterCursor) # <<>>) =>
        /\ ReturnsAndMoves(NextToken(lx), [Type |-> MINUS, Literal |-> Str(<<"-">>)], 1)
        /\ NextToken(NextToken(lx).l).tok = IntOf(LeadingDigits(AfterCursor))

\* C24: a maximal run of digits is scanned as exactly one INT token whose
\* text is the run, and no token is a negative number: the text of every
\* INT token is made of digits, and a - right before digits is returned as
\* a MINUS token of its own, followed by the INT token.
C24_DigitRunIsOneInt ==
    /\ C24_DigitRun
    /\ C24_MinusThenDigits
    /\ \A i \in 1..Len(out) :
          out[i].Type = INT =>
              out[i].Literal # <<>> /\ LeadingDigits(out[i].Literal) = out[i].Literal

\* -15 has been scanned into MINUS and INT 15.
C24_Witness ==
    /\ lx.input = Str(<<"-", "1", "5">>)
    /\ Len(out) = 3
    /\ out[1] = [Type |-> MINUS, Literal |-> Str(<<"-">>)]
    /\ out[2] = IntOf(Str(<<"1", "5">>))
    /\ out[3].Type = EOF

(***************************************************************************)
(* Bytes that belong to no token.                                          *)
(***************************************************************************)
AsciiWhitespace(b) == b \in {B(" "), TAB, CR, LF}

OperatorOrDelimiter(b) ==
    b \in {B("="), B("+"), B("-"), B("!"), B("*"), B("/"), B("<"), B(">"), B(","), B(";"),
           B("("), B(")"), B("{"), B("}")}

\* The cursor is on a byte of the input that is neither whitespace, an
\* operator or delimiter, a letter, an underscore nor a digit.
AtOtherByte ==
    /\ lx.position < Len(lx.input)
    /\ lx.ch = lx.input[lx.position + 1]
    /\ ~AsciiWhitespace(lx.ch)
    /\ ~OperatorOrDelimiter(lx.ch)
    /\ ~AsciiLetter(lx.ch)
    /\ ~AsciiDigit(lx.ch)

\* C25: every input byte that is neither whitespace, an operator or
\* delimiter, a letter, an underscore nor a digit is returned as one ILLEGAL
\* token whose text is exactly that byte; the cursor moves by one byte, so
\* that the rest of the input is scanned by the later calls.
C25_OtherByteIsIllegal ==
    AtOtherByte =>
        /\ ReturnsAndMoves(NextToken(lx), [Type |-> ILLEGAL, Literal |-> <<lx.ch>>], 1)
        /\ NextToken(lx).l = readChar(lx)

(***************************************************************************)
(* The two-token window of the parser.                                     *)
(***************************************************************************)
\* The window <<cur, peek>> is the pair of tokens a scanner in state l
\* returns next, and rest is the scanner left after them.
IsWindowAt(l, cur, peek, rest) ==
    \E r1 \in {NextToken(l)} :
       /\ cur = r1.tok
       /\ \E r2 \in {NextToken(r1.l)} : peek = r2.tok /\ rest = r2.l

\* The window is on two consecutive tokens of the scan that starts in l,
\* within the first n positions.
RECURSIVE WindowWithin(_, _)
WindowWithin(l, n) ==
    IF n = 0 THEN FALSE
    ELSE \/ IsWindowAt(l, p.curToken, p.peekToken, p.l)
         \/ WindowWithin(NextToken(l).l, n - 1)

MaxPulls == Len(p.l.input) + MaxOverrun + 2

WindowOnFirstTwo == IsWindowAt(LexerNew(p.l.input), p.curToken, p.peekToken, p.l)

WindowOnConsecutive == WindowWithin(LexerNew(p.l.input), MaxPulls)

\* A step moves the scanner forward or leaves it where it is, so the window
\* never returns to a token it has left.
WindowMovesForward == p.l.position <= p'.l.position /\ p'.l.input = p.l.input

\* C26: after New the current token is the first token of the input and the
\* lookahead is the second; in every later state the lookahead is the token
\* the scanner produced immediately after the current token, and the window
\* only moves forward, so the parser sees every token once and in order.
C26_TokenWindow ==
    /\ WindowOnFirstTwo
    /\ []WindowOnConsecutive
    /\ [][WindowMovesForward]_vars

\* The parser has returned with the window moved off the first two tokens:
\* four tokens precede the end of the input and the window has been moved
\* four times, so that the current token is the EOF token after them.
C26_Witness ==
    /\ pc = "done"
    /\ Len(Scan(p.l.input)) = 4
    /\ ~WindowOnFirstTwo
    /\ p.curToken.Type = EOF
    /\ IsWindowAt(NextToken(NextToken(NextToken(NextToken(LexerNew(p.l.input)).l).l).l).l,
                  p.curToken, p.peekToken, p.l)

(***************************************************************************)
(* The value of a let statement is skipped.                                *)
(***************************************************************************)
\* The tokens of  let IDENT = <tokens> ;  where <tokens> has no semicolon.
IsLetThenAnything(toks) ==
    /\ Len(toks) >= 4
    /\ toks[1].Type = LET_
    /\ toks[2].Type = IDENT
    /\ toks[3].Type = ASSIGN
    /\ Last(toks).Type = SEMICOLON
    /\ \A i \in 4..(Len(toks) - 1) : toks[i].Type # SEMICOLON

\* s is the let statement of toks, without a value.
IsValuelessLet(s, toks) ==
    /\ s.type = "*ast.LetStatement"
    /\ ~s.isNil
    /\ s.Token = toks[1]
    /\ s.Name.Value = toks[2].Literal
    /\ s.Value = NilExpr

\* parseLetStatement has returned: the current token is the semicolon that
\* ends the statement (the end of the input follows it).
C27_ReturnsOnSemicolon(toks) ==
    /\ IsValuelessLet(stmt, toks)
    /\ p.curToken = Last(toks)
    /\ p.peekToken.Type = EOF
    /\ p.errors = <<>>

\* ParseProgram has returned: the let statement is the only statement.
C27_OnlyTheLet(toks) ==
    /\ p.errors = <<>>
    /\ Len(program) = 1
    /\ IsValuelessLet(program[1], toks)

\* C27: for  let IDENT = <tokens> ;  parseLetStatement returns with the
\* current token on the terminating semicolon and an absent Value; the
\* tokens between = and ; (ILLEGAL tokens and unbalanced parentheses
\* included) record no error and produce no statement.
C27_LetValueIsSkipped ==
    IsLetThenAnything(Scan(p.l.input)) =>
        /\ pc = "append" => C27_ReturnsOnSemicolon(Scan(p.l.input))
        /\ pc = "done" => C27_OnlyTheLet(Scan(p.l.input))

\* let x = ( @ ;  has been parsed: an unbalanced parenthesis and an ILLEGAL
\* token were skipped.
C27_Witness ==
    /\ pc = "done"
    /\ TypesOf(program) = <<"*ast.LetStatement">>
    /\ p.errors = <<>>
    /\ \E toks \in {Scan(p.l.input)} :
          /\ IsLetThenAnything(toks)
          /\ Len(toks) = 6
          /\ toks[4].Type = LPAREN
          /\ toks[5].Type = ILLEGAL

(***************************************************************************)
(* A parenthesis that is not closed.                                       *)
(***************************************************************************)
\* inner is the outcome of parsing what follows the ( under the cursor: an
\* expression, parsed without an error, that no ) follows.
IsUnclosed(inner) ==
    /\ p.curToken.Type = LPAREN
    /\ inner.exp # NilExpr
    /\ inner.p.errors = p.errors
    /\ inner.p.peekToken.Type # RPAREN

\* r refuses the group: one error more, no expression, and the window where
\* the inner expression left it, before the unexpected token.
RefusedUnclosed(r, inner) ==
    /\ r.exp = NilExpr
    /\ r.p.errors = Append(p.errors, ExpectedGot(RPAREN, inner.p.peekToken.Type))
    /\ r.p.curToken = inner.p.curToken
    /\ r.p.peekToken = inner.p.peekToken
    /\ r.p.l = inner.p.l

\* C28: on ( followed by an expression that no ) follows,
\* parseGroupedExpression appends exactly one error expected next token to
\* be ), got <kind> instead, where <kind> is the kind of the token found,
\* returns no expression and does not consume the unexpected token.
C28_UnclosedGroupIsOneError ==
    \A inner \in {parseExpression(nextToken(p), LOWEST)} :
        IsUnclosed(inner) => RefusedUnclosed(parseGroupedExpression(p), inner)

\* The statement ( 1 of ( 1 2 ) has been parsed: one error that names INT,
\* no expression, and 2 is still the peek token.
C28_Witness ==
    /\ pc = "append"
    /\ Scan(p.l.input)[1].Type = LPAREN
    /\ stmt.type = "*ast.ExpressionStatement"
    /\ stmt.Expression = NilExpr
    /\ p.errors = <<ExpectedGot(RPAREN, INT)>>
    /\ p.curToken = Scan(p.l.input)[2]
    /\ p.peekToken = Scan(p.l.input)[3]
    /\ p.peekToken.Type = INT

(***************************************************************************)
(* Trees of a parse without errors.                                        *)
(***************************************************************************)
\* e is present, and so is every operand below it.
RECURSIVE Complete(_)
Complete(e) ==
    /\ e # NilExpr
    /\ e.type = "*ast.PrefixExpression" => Complete(e.Right)
    /\ e.type = "*ast.InfixExpression" => Complete(e.Left) /\ Complete(e.Right)

\* The number of prefix and infix nodes of e.
RECURSIVE Operators(_)
Operators(e) ==
    IF e = NilExpr THEN 0
    ELSE IF e.type = "*ast.PrefixExpression" THEN 1 + Operators(e.Right)
    ELSE IF e.type = "*ast.InfixExpression" THEN 1 + Operators(e.Left) + Operators(e.Right)
    ELSE 0

\* C29: when the error list is empty after ParseProgram, every
\* ExpressionStatement of the Program has a present expression, and every
\* PrefixExpression and InfixExpression in it has present operands.
C29_NoErrorMeansCompleteTrees ==
    (pc = "done" /\ p.errors = <<>>) =>
        \A i \in 1..Len(program) :
            program[i].type = "*ast.ExpressionStatement" =>
                Complete(program[i].Expression)

\* A parse without errors has returned an expression statement whose tree
\* has an infix node over a prefix node, both with their operands.
C29_Witness ==
    /\ pc = "done"
    /\ p.errors = <<>>
    /\ \E i \in 1..Len(program) :
          /\ program[i].type = "*ast.ExpressionStatement"
          /\ program[i].Expression.type = "*ast.InfixExpression"
          /\ program[i].Expression.Left.type = "*ast.PrefixExpression"
          /\ Operators(program[i].Expression) = 2
          /\ Complete(program[i].Expression)

(***************************************************************************)
(* Rendering the Program of any parse.                                     *)
(***************************************************************************)
\* C30: rendering never crashes: for every input String() on the Program
\* that ParseProgram returned completes and returns text, also when the
\* error list is not empty; no rendered node dereferences an absent operand,
\* name or statement.
C30_RenderingNeverCrashes == pc = "done" => ~ProgramString(program).panic

(***************************************************************************)
(* The texts of the tokens against the input.                              *)
(***************************************************************************)
\* The bytes of a sequence that are not whitespace, in order.
RECURSIVE WithoutWhitespace(_)
WithoutWhitespace(bytes) ==
    IF bytes = <<>> THEN <<>>
    ELSE IF AsciiWhitespace(Head(bytes)) THEN WithoutWhitespace(Tail(bytes))
    ELSE <<Head(bytes)>> \o WithoutWhitespace(Tail(bytes))

\* The texts of the tokens of toks, one after the other.
TextsOf(toks) == Flatten([i \in 1..Len(toks) |-> toks[i].Literal])

\* The scanner has just returned its first EOF token.
FirstEOFReturned ==
    /\ Len(out) >= 1
    /\ Last(out).Type = EOF
    /\ \A i \in 1..(Len(out) - 1) : out[i].Type # EOF

\* C31: scanning loses no input: for every input without a zero byte the
\* texts of the tokens returned before the first EOF token, one after the
\* other, are exactly the input with its whitespace bytes (space, tab, CR,
\* LF) removed.
C31_ScanningLosesNoInput ==
    (NoZeroByte(lx.input) /\ FirstEOFReturned) =>
        TextsOf(SubSeq(out, 1, Len(out) - 1)) = WithoutWhitespace(lx.input)

(***************************************************************************)
(* The number of calls before the end of the input.                        *)
(***************************************************************************)
\* A call that returns a token other than EOF moves the cursor forward by at
\* least one byte, within the input.
NonEOFCallAdvances ==
    (Len(out') = Len(out) + 1 /\ Last(out').Type # EOF) =>
        /\ lx'.position >= lx.position + 1
        /\ lx.position < Len(lx.input)

\* Once n+1 calls have been made on an input of n bytes, one of the first
\* n+1 tokens is the EOF token.
EOFWithinLengthPlusOne ==
    Len(out) >= Len(lx.input) + 1 =>
        \E i \in 1..(Len(lx.input) + 1) : out[i].Type = EOF

\* C32: the token sequence is finite: every NextToken call that returns a
\* token other than EOF advances the cursor by at least one byte, so for an
\* input of n bytes the first EOF token is returned within n+1 calls.
C32_TokenSequenceIsFinite ==
    /\ [][NonEOFCallAdvances]_vars
    /\ []EOFWithinLengthPlusOne

\* An input of three bytes, each a token of its own: the fourth call has
\* returned the first EOF token, after three calls that moved the cursor.
C32_Witness ==
    /\ Len(lx.input) = 3
    /\ Len(out) = 4
    /\ \A i \in 1..3 : out[i].Type # EOF
    /\ out[4].Type = EOF
    /\ lx.position >= 3

====
